---- MODULE Spec2Model ----
(***************************************************************************)
(* Model of the job subsystem of Disque (src/src/job.c): job IDs, the job  *)
(* registry, the serializer, the ADDJOB command and the unblock path of a  *)
(* client waiting for synchronous replication.                             *)
(*                                                                         *)
(* A node is single threaded: every command handler and every event runs   *)
(* to completion, so each is one action.                                   *)
(***************************************************************************)
EXTENDS Integers, Sequences, FiniteSets, TLC

(***************************************************************************)
(* Bounds of the model.                                                    *)
(***************************************************************************)
MaxJobs == 2        \* ADDJOB commands that reach createJob, Spec and SpecArgs
MaxBurst == 3       \* same, in the specification of the ctime sequence
MaxClock == 2       \* the wall clock (mstime) takes the values 1..MaxClock
MaxNodes == 2       \* reachable_nodes_count ranges over 0..MaxNodes
HashSpace == 2      \* distinct values of the 128 bit SHA1 prefix

Clients == {"c1", "c2"}
NULL == 0           \* the null job pointer; job pointers are 1, 2, ...

(***************************************************************************)
(* Integers wider than the checker's own: a non negative number is         *)
(* hi * 2^16 + lo with 0 <= lo < 2^16; a long long adds a sign.            *)
(***************************************************************************)
Radix == 2^16

LLInt(n) ==
    LET m == IF n < 0 THEN 0 - n ELSE n
    IN  [neg |-> n < 0, hi |-> m \div Radix, lo |-> m % Radix]

\* hi16 * 2^32 + n, for small n >= 0
LLBig(hi16, n) == [neg |-> FALSE, hi |-> hi16 * Radix + n \div Radix, lo |-> n % Radix]

LLIsZero(x) == x.hi = 0 /\ x.lo = 0
LLIsNeg(x) == x.neg /\ ~LLIsZero(x)
\* x > n for a long long x and 0 <= n < 2^31
LLGreater(x, n) ==
    /\ ~x.neg
    /\ \/ x.hi > n \div Radix
       \/ x.hi = n \div Radix /\ x.lo > n % Radix
\* x / k for x >= 0 and 0 < k < 2^15 (C division, no sign involved)
LLDiv(x, k) ==
    [neg |-> FALSE,
     hi  |-> x.hi \div k,
     lo  |-> ((x.hi % k) * Radix + x.lo) \div k]
\* conversion to uint32_t: the value modulo 2^32
Uint32(x) == [neg |-> FALSE, hi |-> x.hi % Radix, lo |-> x.lo]
\* x + y for x, y >= 0
LLAdd(x, y) ==
    [neg |-> FALSE,
     hi  |-> x.hi + y.hi + (x.lo + y.lo) \div Radix,
     lo  |-> (x.lo + y.lo) % Radix]
\* the value of a small non negative long long
LLVal(x) == x.hi * Radix + x.lo


\* conversion of a long long >= 0 to int (32 bits, two's complement)
Int32(x) ==
    LET u == Uint32(x)
    IN  IF u.hi < Radix \div 2
        THEN u
        ELSE [neg |-> TRUE,
              hi  |-> Radix - u.hi - (IF u.lo = 0 THEN 0 ELSE 1),
              lo  |-> (Radix - u.lo) % Radix]
\* the low 16 bits of an int, as stored by (v & 0xff00) >> 8 and v & 0xff
Low16(v) == IF LLIsNeg(v) THEN (Radix - v.lo) % Radix ELSE v.lo

(***************************************************************************)
(* State.                                                                  *)
(***************************************************************************)
VARIABLES
    offered,                \* the ADDJOB commands the clients of this run send
    now,                    \* mstime(), the wall clock in milliseconds
    reachable_nodes_count,  \* server.cluster->reachable_nodes_count
    sha1,                   \* the values of SHA1(jobid_seed, counter) computed so
                            \* far: sha1[n] is the one for counter = n
    counter,                \* static uint64_t counter of generateJobID
    prev_ctime,             \* static uint64_t prev_ctime of addjobCommand
    heap,                   \* job pointer |-> job structure (allocated or freed)
    server_jobs,            \* server.jobs: the job pointers held as keys of the dict
    queue_jobs,             \* the job pointers handed to queueAddJob
    qref,                   \* queue name |-> references taken on it by jobs
    blocked,                \* client |-> blocked with DISQUE_BLOCKED_JOB_REPL
    bpop,                   \* client |-> [timeout, job], the c->bpop fields
    reply,                  \* client |-> replies added by the last step on it
    reg_log,                \* the register / unregister operations, in order
    serialized,             \* the last call of serializeJob: the job and the outcome
    last                    \* the last step: its kind, client and the calls it made

vars == <<offered, now, reachable_nodes_count, sha1, counter, prev_ctime, heap,
          server_jobs, queue_jobs, qref, blocked, bpop, reply, reg_log, serialized,
          last>>

JOB_STATE_WAIT_REPL == "WAIT_REPL"
JOB_STATE_ACTIVE == "ACTIVE"
JOB_STATE_QUEUED == "QUEUED"
JOB_STATE_ACKED == "ACKED"

Queues == {"q1"}
Bodies == {"body"}
\* first 8 bytes of server.cluster->myself->name
MyselfName == <<"a", "1", "b", "2", "c", "3", "d", "4">>

(***************************************************************************)
(* Low level jobs functions.                                               *)
(***************************************************************************)

\* The two TTL bytes hash[16], hash[17]: the TTL in minutes, NOT ceiled.
TTLBytes(ttl) ==
    LET q == [LLDiv(ttl, 60) EXCEPT !.neg = ttl.neg]     \* ttl /= 60
        w == Low16(q)
    IN  <<w \div 256, w % 256>>

\* SHA1 is a function of no known shape: its value for a counter is drawn
\* when first computed and is the same ever after. The 16 bytes kept of it
\* are named 0, 1, ... in the order they first appear.
HashChoices(memo) ==
    {v \in 0..(HashSpace - 1) : \A u \in 0..(v - 1) : \E i \in 1..Len(memo) : memo[i] = u}
SHA1(memo, cnt, r) == IF cnt <= Len(memo) THEN memo[cnt] ELSE r

\* Mutant: the counter is not advanced
generateJobIDSameCounter(cnt, ttl, r) ==
    [counter |-> cnt,
     hashed  |-> cnt + 1,
     id      |-> [prefix |-> <<"D", "I">>,
                  node   |-> MyselfName,
                  rand   |-> SHA1(sha1, cnt + 1, r),
                  ttl    |-> TTLBytes(ttl),
                  suffix |-> <<"S", "Q">>]]

\* generateJobID: increments the counter, then builds the ID from the node
\* name, SHA1(seed, counter) and the TTL. 'ttl' is an int; 'r' is the value
\* of SHA1 in case this counter was never hashed before.
generateJobID(cnt, ttl, r) ==
    [counter |-> cnt + 1,
     hashed  |-> cnt + 1,
     id      |-> [prefix |-> <<"D", "I">>,
                  node   |-> MyselfName,
                  rand   |-> SHA1(sha1, cnt + 1, r),
                  ttl    |-> TTLBytes(ttl),
                  suffix |-> <<"S", "Q">>]]

\* The ID as the 48 characters written to 'id': the 16 bytes of the hash and
\* the 2 bytes of the TTL go through the hexadecimal charset.
charset == <<"0", "1", "2", "3", "4", "5", "6", "7",
             "8", "9", "a", "b", "c", "d", "e", "f">>
\* the 16 bytes kept of a hash value: the model's name of the value is the last
HashBytes(v) == [i \in 1..16 |-> IF i = 16 THEN v ELSE 0]
RECURSIVE HexOf(_)
HexOf(bytes) ==
    IF bytes = <<>> THEN <<>>
    ELSE <<charset[(Head(bytes) \div 16) + 1], charset[(Head(bytes) % 16) + 1]>>
         \o HexOf(Tail(bytes))
JobIDChars(id) ==
    id.prefix \o id.node \o HexOf(HashBytes(id.rand) \o id.ttl) \o id.suffix

\* A dict pointer: NULL until the dict is allocated.
NullDict == [alloc |-> FALSE, nodes |-> {}]
\* dictAdd of a node on a dict created on demand
dictAddNode(d, node) == [alloc |-> TRUE, nodes |-> d.nodes \cup {node}]

\* createJob with a given ID (NULL: the caller passes generateJobID's).
createJob(id, state) ==
    [mem   |-> "live",
     id    |-> id,
     queue |-> "",            \* NULL
     state |-> state,
     flags |-> 0,
     body  |-> "",            \* NULL
     nodes_delivered |-> NullDict,
     nodes_confirmed |-> NullDict,
     repl  |-> 0, ctime |-> 0, etime |-> LLInt(0), qtime |-> 0,
     rtime |-> LLInt(0)]

\* freeJob: releases the queue reference and the memory. Not unregistered.
freeJob(hp, refs, j) ==
    [heap |-> [hp EXCEPT ![j].mem = "freed"],
     qref |-> IF hp[j].queue = "" THEN refs
              ELSE [refs EXCEPT ![hp[j].queue] = @ - 1]]

\* dictFind on server.jobs: keys are pointers to job IDs, compared by content.
dictFind(dict, hp, id) == {k \in dict : hp[k].id = id}

\* Mutant: dictReplace in the place of dictAdd
registerJobOverwrite(dict, hp, j) ==
    [retval |-> "DISQUE_OK",
     jobs   |-> (dict \ {k \in dict : hp[k].id = hp[j].id}) \cup {j}]

\* registerJob: dictAdd fails when the key exists; then nothing is performed.
registerJob(dict, hp, j) ==
    IF dictFind(dict, hp, hp[j].id) # {}
    THEN [retval |-> "DISQUE_ERR", jobs |-> dict]
    ELSE [retval |-> "DISQUE_OK", jobs |-> dict \cup {j}]

\* Mutant: the value of the entry (dictGetVal), which registerJob set to NULL
lookupJobValue(dict, hp, id) == NULL

\* lookupJob: the key of the entry found (the job itself), or NULL.
lookupJob(dict, hp, id) ==
    LET de == dictFind(dict, hp, id)
    IN  IF de = {} THEN NULL ELSE CHOOSE k \in de : TRUE


(***************************************************************************)
(* Jobs serialization.                                                     *)
(***************************************************************************)
JOB_STRUCT_SER_LEN == 72        \* id, state, flags, repl, ctime, etime, qtime, rtime
DISQUE_CLUSTER_NAMELEN == 40

sdslen(s) == Len(s)

\* serializeSdsString: 4 bytes of count and the bytes of the string (NULL and
\* the empty string are both ""); the pointer advances by 4 + sdslen(s)
serializeSdsString(p, s) == p + 4 + sdslen(s)

\* The process faulted inside serializeJob.
SerializeFault == [fault |-> TRUE, len |-> 0, written |-> 0, asserted |-> FALSE]

\* serializeJob run to its end: 'len' is the length computed first, 'written'
\* is p - msg at the end and 'asserted' the serverAssert on the two; 'count'
\* is the length prefix and the rest is what was copied into msg.
SerializeDone(j, queue, nodes) ==
    LET len == 4 + JOB_STRUCT_SER_LEN
               + 4 + (IF j.queue # "" THEN sdslen(j.queue) ELSE 0)
               + 4 + (IF j.body # "" THEN sdslen(j.body) ELSE 0)
               + 4 + Cardinality(nodes) * DISQUE_CLUSTER_NAMELEN
        p0  == 4 + JOB_STRUCT_SER_LEN
        p1  == serializeSdsString(p0, queue)
        p2  == serializeSdsString(p1, j.body)
        p3  == p2 + 4 + Cardinality(nodes) * DISQUE_CLUSTER_NAMELEN
    IN  [fault |-> FALSE, len |-> len, written |-> p3, asserted |-> len = p3,
         count |-> len,
         sj    |-> [id |-> j.id, state |-> j.state, flags |-> j.flags,
                    repl |-> j.repl, ctime |-> j.ctime, etime |-> j.etime,
                    qtime |-> j.qtime, rtime |-> j.rtime],
         queue |-> queue, body |-> j.body, nodes_delivered |-> nodes]

\* serializeJob, as the set of its outcomes. j->queue->ptr (line 204) is read
\* also when j->queue is NULL, and dictSize and the iterator (lines 183, 211,
\* 215) are given j->nodes_delivered also when it is NULL: both are undefined.
\* The process then faults, or goes on with what it finds there, taken to be
\* an empty string and an empty dict.
serializeJob(j) ==
    LET undefined == j.queue = "" \/ ~j.nodes_delivered.alloc
        done == SerializeDone(j, j.queue, j.nodes_delivered.nodes)
    IN  IF undefined THEN {SerializeFault, done} ELSE {done}

(***************************************************************************)
(* Jobs cluster functions. Both are empty in the source.                   *)
(***************************************************************************)

\* deleteJobFromCluster: "TODO", the body holds comments only. The node
\* state [heap, jobs, qref] it is given comes back as it was.
deleteJobFromCluster(st, j) == st

\* The names of the other nodes of the cluster
OtherNodes == {"n1", "n2", "n3"}

\* Mutant: the job is recorded as delivered to every other node
replicateJobToEveryNode(hp, j, count, ask_for_reply) ==
    [hp EXCEPT ![j].nodes_delivered = [alloc |-> TRUE, nodes |-> OtherNodes]]

\* replicateJobInCluster: an empty body; the job is left as it was.
replicateJobInCluster(hp, j, count, ask_for_reply) == hp

\* The nodes replicateJobInCluster sends REPLJOB to: the body sends nothing.
replicateJobSent(hp, j, count, ask_for_reply) == {}

(***************************************************************************)
(* Collaborators outside job.c.                                            *)
(***************************************************************************)

\* queueAddJob: admits the job into its queue; the job becomes QUEUED and
\* its qtime is set.
queueAddJob(st, j, t) ==
    [heap  |-> [st.heap EXCEPT ![j].state = JOB_STATE_QUEUED, ![j].qtime = t],
     queue |-> st.queue \cup {j}]

\* getTimeoutFromObjectOrReply: a timeout that is no number >= 0 is an error.
getTimeoutFromObjectOrReply(tok) ==
    IF tok.t = "num" /\ ~LLIsNeg(tok.v)
    THEN [retval |-> "DISQUE_OK", timeout |-> tok.v]
    ELSE [retval |-> "DISQUE_ERR", timeout |-> LLInt(0)]

(***************************************************************************)
(* Replies.                                                                *)
(***************************************************************************)
\* A reply: its type, the text of an error, the job ID of a status reply.
NoJobID == [prefix |-> <<>>, node |-> <<>>, rand |-> 0, ttl |-> <<>>, suffix |-> <<>>]
ErrorReply(s) == [t |-> "err", s |-> s, id |-> NoJobID]
StatusReply(id) == [t |-> "status", s |-> "", id |-> id]

ErrReplicate == ErrorReply("REPLICATE must be between 1 and 65535")
ErrTTL == ErrorReply("TTL must be a number > 0")
ErrRetry == ErrorReply("RETRY count must be a non negative number")
ErrSyntax == ErrorReply("syntax error")
ErrTimeout == ErrorReply("timeout is not an integer or out of range")
ErrConflict == ErrorReply("REPLICATE > 1 and RETRY 0 is invalid")
ErrNoRepl == ErrorReply("NOREPL Not enough reachable nodes")
ErrInternal == ErrorReply("Internal error creating the job")
TimeoutReply == [t |-> "nil", s |-> "", id |-> NoJobID]
\* addReplyJobID: a status reply holding the ID of the job
addReplyJobID(hp, j) == StatusReply(hp[j].id)

(***************************************************************************)
(* ADDJOB queue job timeout [REPLICATE <n>] [TTL <sec>] [RETRY <sec>]      *)
(* [ASYNC]: the arguments are tokens, a string or the text of a number.    *)
(***************************************************************************)
Str(s) == [t |-> "str", s |-> s, v |-> LLInt(0)]
Num(x) == [t |-> "num", s |-> "", v |-> x]

\* strcasecmp(opt, word) = 0: the option names compare without case
tolower(s) ==
    CASE s = "REPLICATE" -> "replicate"
      [] s = "TTL" -> "ttl"
      [] s = "RETRY" -> "retry"
      [] s = "ASYNC" -> "async"
      [] OTHER -> s

\* The locals of addjobCommand before the options are parsed.
AddjobLocals ==
    [err |-> "", replicate |-> LLInt(3), ttl |-> LLInt(3600 * 24),
     retry |-> LLInt(0 - 1), async |-> FALSE]

\* The option loop: 'opts' is argv[4..argc-1], j the index into it.
RECURSIVE ParseArgs(_, _, _)
ParseArgs(opts, j, st) ==
    IF j > Len(opts) THEN st
    ELSE
      LET opt == tolower(opts[j].s)
          lastarg == (j = Len(opts))
          isopt == opts[j].t = "str"
          val == opts[j + 1]
      IN  IF isopt /\ opt = "replicate" /\ ~lastarg THEN
              IF val.t # "num" \/ val.v.neg \/ LLIsZero(val.v)
                 \/ LLGreater(val.v, 65535)
              THEN [st EXCEPT !.err = ErrReplicate.s]
              ELSE ParseArgs(opts, j + 2, [st EXCEPT !.replicate = val.v])
          ELSE IF isopt /\ opt = "ttl" /\ ~lastarg THEN
              IF val.t # "num" \/ val.v.neg \/ LLIsZero(val.v)
              THEN [st EXCEPT !.err = ErrTTL.s]
              ELSE ParseArgs(opts, j + 2, [st EXCEPT !.ttl = val.v])
          ELSE IF isopt /\ opt = "retry" /\ ~lastarg THEN
              IF val.t # "num" \/ LLIsNeg(val.v)
              THEN [st EXCEPT !.err = ErrRetry.s]
              ELSE ParseArgs(opts, j + 2, [st EXCEPT !.retry = val.v])
          ELSE IF isopt /\ opt = "async" THEN
              ParseArgs(opts, j + 1, [st EXCEPT !.async = TRUE])
          ELSE [st EXCEPT !.err = ErrSyntax.s]


\* The arguments of a command: argv[1], argv[2], argv[3] and argv[4..]
Argv(queue, body, timeout, opts) ==
    [queue |-> queue, body |-> body, timeout |-> timeout, opts |-> opts]
NoArgv == Argv("", "", Num(LLInt(0)), <<>>)

\* One call made by a step: the function, the job and what it was asked;
\* 'reg' tells whether lookupJob found that very job when the call was made,
\* 'to' the nodes the call sent a message to.
Call(fn, j, count, ask, reg) ==
    [fn |-> fn, job |-> j, count |-> count, ask |-> ask, reg |-> reg, to |-> {}]

Step(kind, c, argv, calls) ==
    [kind |-> kind, c |-> c, argv |-> argv, calls |-> calls]

Only(c, r) == [x \in Clients |-> IF x = c THEN r ELSE <<>>]

\* Mutant: the job ID is generated before the checks
RejectAfterIdGenerated(c, argv, err) ==
    /\ reply' = Only(c, <<err>>)
    /\ last' = Step("addjob", c, argv, <<>>)
    /\ counter' = counter + 1
    /\ UNCHANGED <<offered, serialized, now, reachable_nodes_count, sha1, prev_ctime, heap,
                   server_jobs, queue_jobs, qref, blocked, bpop, reg_log>>

\* The exits of addjobCommand before a job is created: an error reply only.
Reject(c, argv, err) ==
    /\ reply' = Only(c, <<err>>)
    /\ last' = Step("addjob", c, argv, <<>>)
    /\ UNCHANGED <<offered, serialized, now, reachable_nodes_count, sha1, counter, prev_ctime, heap,
                   server_jobs, queue_jobs, qref, blocked, bpop, reg_log>>

\* When retry is not specified, it defaults to 1/10 of the TTL.
DefaultRetry(ttl) ==
    LET r == LLDiv(ttl, 10)
    IN  IF LLIsZero(r) THEN LLInt(1) ELSE r

\* job->ctime: milliseconds * 1000000, incremented when equal to prev_ctime
JobCtime(ms, prev) ==
    LET t == ms * 1000000
    IN  IF t = prev THEN t + 1 ELSE t

\* The job as filled in by addjobCommand (lines 347-364).
NewJob(id, queue, body, replicate, ctime, ttl, retry) ==
    [createJob(id, JOB_STATE_WAIT_REPL) EXCEPT
        !.queue = queue,
        !.repl  = replicate % Radix,
        !.ctime = ctime,
        !.etime = Uint32(LLAdd(LLInt(ctime), ttl)),
        !.qtime = 0,
        !.rtime = Uint32(retry),
        !.body  = body]

\* Mutant: the job is sent to REPLICATE nodes
ReplicaCountAll(replicate) == replicate

\* REPLJOB is sent to REPLICATE-1 nodes (line 379)
ReplicaCount(replicate) == replicate - 1

\* Mutant: ASYNC is not looked at
ShouldBlockIgnoringAsync(replicate, async) == replicate > 1

\* The client blocks for replicated jobs where ASYNC was not asked (line 389)
ShouldBlock(replicate, async) == replicate > 1 /\ ~async

\* The part of addjobCommand after the checks: 'p' holds the parsed locals.
AddjobCreate(c, argv, p, timeout, retry) ==
  \E r \in HashChoices(sha1) :
    LET replicate == LLVal(p.replicate)
        g     == generateJobID(counter, Int32(p.ttl), r)
        j     == Len(heap) + 1
        ctime == JobCtime(now, prev_ctime)
        hp1   == Append(heap, NewJob(g.id, argv.queue, argv.body, replicate,
                                     ctime, p.ttl, retry))
        refs1 == [qref EXCEPT ![argv.queue] = @ + 1]
        reg   == registerJob(server_jobs, hp1, j)
        isreg == lookupJob(reg.jobs, hp1, g.id) = j
        regcall == Call("registerJob", j, 0, FALSE, isreg)
    IN  /\ counter' = g.counter
        /\ prev_ctime' = ctime
        /\ reg_log' = Append(reg_log, [op |-> "register", job |-> j, id |-> g.id,
                                       ok |-> reg.retval = "DISQUE_OK"])
        /\ sha1' = IF g.hashed > Len(sha1) THEN Append(sha1, g.id.rand) ELSE sha1
        /\ UNCHANGED <<offered, serialized, now, reachable_nodes_count>>
        /\ IF reg.retval = "DISQUE_ERR" THEN
              LET fr == freeJob(hp1, refs1, j)
              IN  /\ heap' = fr.heap
                  /\ qref' = fr.qref
                  /\ server_jobs' = reg.jobs
                  /\ reply' = Only(c, <<ErrInternal>>)
                  /\ last' = Step("addjob", c, argv,
                                  <<regcall, Call("freeJob", j, 0, FALSE, isreg)>>)
                  /\ UNCHANGED <<queue_jobs, blocked, bpop>>
           ELSE
              LET hp2 == IF replicate > 1
                         THEN replicateJobInCluster(hp1, j, ReplicaCount(replicate),
                                                    ~p.async)
                         ELSE hp1
                  replcalls ==
                         IF replicate > 1
                         THEN <<[Call("replicateJobInCluster", j,
                                      ReplicaCount(replicate), ~p.async, isreg)
                                 EXCEPT !.to = replicateJobSent(hp1, j,
                                            ReplicaCount(replicate), ~p.async)]>>
                         ELSE <<>>
              IN  /\ server_jobs' = reg.jobs
                  /\ qref' = refs1
                  /\ IF ShouldBlock(replicate, p.async) THEN
                        /\ bpop' = [bpop EXCEPT ![c] = [timeout |-> timeout, job |-> j]]
                        /\ heap' = [hp2 EXCEPT ![j].state = JOB_STATE_WAIT_REPL]
                        /\ blocked' = [blocked EXCEPT ![c] = TRUE]
                        /\ reply' = Only(c, <<>>)
                        /\ last' = Step("addjob", c, argv, <<regcall>> \o replcalls \o
                                        <<Call("blockClient", j, 0, FALSE, isreg)>>)
                        /\ UNCHANGED queue_jobs
                     ELSE
                        LET qa == queueAddJob([heap |-> hp2, queue |-> queue_jobs],
                                              j, now)
                        IN  /\ heap' = qa.heap
                            /\ queue_jobs' = qa.queue
                            /\ reply' = Only(c, <<addReplyJobID(qa.heap, j)>>)
                            /\ last' = Step("addjob", c, argv, <<regcall>> \o replcalls \o
                                            <<Call("queueAddJob", j, 0, FALSE, isreg)>>)
                            /\ UNCHANGED <<blocked, bpop>>

\* Mutant: the node itself is not counted as a copy
NotEnoughNodesOffByOne(replicate, reachable) == replicate > reachable

\* Check if REPLICATE can't be honoured at all (line 339)
NotEnoughNodes(replicate, reachable) == replicate - 1 > reachable

\* Mutant: no command is processed while some client waits for its replicas
addjobCommandAfterPending(c, argv) ==
    /\ \A x \in Clients : ~blocked[x]
    /\ LET p  == ParseArgs(argv.opts, 1, AddjobLocals)
           to == getTimeoutFromObjectOrReply(argv.timeout)
           retry == IF p.retry = LLInt(0 - 1) THEN DefaultRetry(p.ttl) ELSE p.retry
       IN  IF p.err # "" THEN Reject(c, argv, ErrorReply(p.err))
           ELSE IF to.retval # "DISQUE_OK" THEN Reject(c, argv, ErrTimeout)
           ELSE IF LLGreater(p.replicate, 1) /\ LLIsZero(p.retry)
                THEN Reject(c, argv, ErrConflict)
           ELSE IF NotEnoughNodes(LLVal(p.replicate), reachable_nodes_count)
                THEN Reject(c, argv, ErrNoRepl)
           ELSE AddjobCreate(c, argv, p, to.timeout, retry)

\* addjobCommand. A blocked client sends no command.
addjobCommand(c, argv) ==
    /\ ~blocked[c]
    /\ LET p  == ParseArgs(argv.opts, 1, AddjobLocals)
           to == getTimeoutFromObjectOrReply(argv.timeout)
           retry == IF p.retry = LLInt(0 - 1) THEN DefaultRetry(p.ttl) ELSE p.retry
       IN  IF p.err # "" THEN Reject(c, argv, ErrorReply(p.err))
           ELSE IF to.retval # "DISQUE_OK" THEN Reject(c, argv, ErrTimeout)
           ELSE IF LLGreater(p.replicate, 1) /\ LLIsZero(p.retry)
                THEN Reject(c, argv, ErrConflict)
           ELSE IF NotEnoughNodes(LLVal(p.replicate), reachable_nodes_count)
                THEN Reject(c, argv, ErrNoRepl)
           ELSE AddjobCreate(c, argv, p, to.timeout, retry)


(***************************************************************************)
(* The unblock path.                                                       *)
(***************************************************************************)

\* Mutant: the client keeps its reference to the job
unblockKeepingJob(st, bp, c) ==
    LET j == bp[c].job
        del == st.heap[j].state = JOB_STATE_WAIT_REPL
    IN  [st    |-> IF del THEN deleteJobFromCluster(st, j) ELSE st,
         bpop  |-> bp,
         calls |-> IF del
                   THEN <<Call("deleteJobFromCluster", j, 0, FALSE,
                               lookupJob(st.jobs, st.heap, st.heap[j].id) = j)>>
                   ELSE <<>>]

\* Mutant: the state of the job is not looked at before the deletion
unblockWithoutStateCheck(st, bp, c) ==
    LET j == bp[c].job
    IN  [st    |-> deleteJobFromCluster(st, j),
         bpop  |-> [bp EXCEPT ![c].job = NULL],
         calls |-> <<Call("deleteJobFromCluster", j, 0, FALSE,
                          lookupJob(st.jobs, st.heap, st.heap[j].id) = j)>>]

\* unblockClientWaitingJobRepl: if the job is still WAIT_REPL it is handed to
\* deleteJobFromCluster; the client forgets the job. 'st' is the node state
\* [heap, jobs, qref], 'bp' the bpop fields of the clients.
unblockClientWaitingJobRepl(st, bp, c) ==
    LET j == bp[c].job
        del == st.heap[j].state = JOB_STATE_WAIT_REPL
    IN  [st    |-> IF del THEN deleteJobFromCluster(st, j) ELSE st,
         bpop  |-> [bp EXCEPT ![c].job = NULL],
         calls |-> IF del
                   THEN <<Call("deleteJobFromCluster", j, 0, FALSE,
                               lookupJob(st.jobs, st.heap, st.heap[j].id) = j)>>
                   ELSE <<>>]

\* unblockClient (blocked.c): the cleanup for the block type, then the client
\* is no longer blocked.
unblockClient(st, bp, bl, c) ==
    LET u == unblockClientWaitingJobRepl(st, bp, c)
    IN  [st |-> u.st, bpop |-> u.bpop, calls |-> u.calls,
         blocked |-> [bl EXCEPT ![c] = FALSE]]

NodeState == [heap |-> heap, jobs |-> server_jobs, qref |-> qref]

\* The timeout of a blocked client expires (a timeout of 0 never does).
ClientTimeout(c) ==
    /\ blocked[c]
    /\ ~LLIsZero(bpop[c].timeout)
    /\ LET u == unblockClient(NodeState, bpop, blocked, c)
       IN  /\ heap' = u.st.heap
           /\ server_jobs' = u.st.jobs
           /\ qref' = u.st.qref
           /\ bpop' = u.bpop
           /\ blocked' = u.blocked
           /\ reply' = Only(c, <<TimeoutReply>>)
           /\ last' = Step("timeout", c, NoArgv, u.calls)
    /\ UNCHANGED <<offered, serialized, now, reachable_nodes_count, sha1, counter, prev_ctime,
                   queue_jobs, reg_log>>

\* A blocked client disconnects: freeClient unblocks it; nothing is replied.
ClientDisconnect(c) ==
    /\ blocked[c]
    /\ LET u == unblockClient(NodeState, bpop, blocked, c)
       IN  /\ heap' = u.st.heap
           /\ server_jobs' = u.st.jobs
           /\ qref' = u.st.qref
           /\ bpop' = u.bpop
           /\ blocked' = u.blocked
           /\ reply' = Only(c, <<>>)
           /\ last' = Step("disconnect", c, NoArgv, u.calls)
    /\ UNCHANGED <<offered, serialized, now, reachable_nodes_count, sha1, counter, prev_ctime,
                   queue_jobs, reg_log>>

(***************************************************************************)
(* Events handled outside job.c.                                           *)
(***************************************************************************)
Peers == {"n1"}

\* A peer confirms the job a client is blocked on: any confirmation is
\* accepted; the job is queued, the client is told the ID and unblocked.
ReplicationConfirmed(c, node) ==
    /\ blocked[c]
    /\ bpop[c].job # NULL
    /\ heap[bpop[c].job].state = JOB_STATE_WAIT_REPL
    /\ LET j  == bpop[c].job
           hp == [heap EXCEPT ![j].nodes_confirmed = dictAddNode(@, node)]
           qa == queueAddJob([heap |-> hp, queue |-> queue_jobs], j, now)
           u  == unblockClient([heap |-> qa.heap, jobs |-> server_jobs,
                                qref |-> qref], bpop, blocked, c)
       IN  /\ heap' = u.st.heap
           /\ server_jobs' = u.st.jobs
           /\ qref' = u.st.qref
           /\ queue_jobs' = qa.queue
           /\ bpop' = u.bpop
           /\ blocked' = u.blocked
           /\ reply' = Only(c, <<addReplyJobID(qa.heap, j)>>)
           /\ last' = Step("confirmed", c, NoArgv,
                           <<Call("queueAddJob", j, 0, FALSE,
                                  lookupJob(server_jobs, heap, heap[j].id) = j)>>
                           \o u.calls)
    /\ UNCHANGED <<offered, serialized, now, reachable_nodes_count, sha1, counter, prev_ctime, reg_log>>

\* unregister(id): removes the mapping, does not free the job.
unregisterJob(dict, hp, id) == dict \ dictFind(dict, hp, id)

\* The queue subsystem is done with a queued job (QUEUED -> ACKED -> DELETED):
\* the job leaves the queue, is unregistered and then freed.
AckedJobDeleted(j) ==
    /\ j \in queue_jobs
    /\ heap[j].state = JOB_STATE_QUEUED
    /\ LET fr == freeJob(heap, qref, j)
       IN  /\ heap' = fr.heap
           /\ qref' = fr.qref
    /\ server_jobs' = unregisterJob(server_jobs, heap, heap[j].id)
    /\ queue_jobs' = queue_jobs \ {j}
    /\ reg_log' = Append(reg_log, [op |-> "unregister", job |-> j,
                                   id |-> heap[j].id, ok |-> TRUE])
    /\ reply' = Only("c1", <<>>)
    /\ last' = Step("event", "c1", NoArgv, <<>>)
    /\ UNCHANGED <<offered, serialized, now, reachable_nodes_count, sha1, counter, prev_ctime,
                   blocked, bpop>>

\* The wall clock advances.
Tick ==
    /\ now < MaxClock
    /\ now' = now + 1
    /\ reply' = Only("c1", <<>>)
    /\ last' = Step("event", "c1", NoArgv, <<>>)
    /\ UNCHANGED <<offered, serialized, reachable_nodes_count, sha1, counter, prev_ctime, heap,
                   server_jobs, queue_jobs, qref, blocked, bpop, reg_log>>

\* The cluster reports another number of reachable nodes.
ReachableChange(n) ==
    /\ n # reachable_nodes_count
    /\ reachable_nodes_count' = n
    /\ reply' = Only("c1", <<>>)
    /\ last' = Step("event", "c1", NoArgv, <<>>)
    /\ UNCHANGED <<offered, serialized, now, sha1, counter, prev_ctime, heap, server_jobs, queue_jobs,
                   qref, blocked, bpop, reg_log>>

(***************************************************************************)
(* The commands offered to the node.                                       *)
(***************************************************************************)
Timeouts == {Num(LLInt(10)), Num(LLInt(0 - 1))}

OptReplicate ==
    {<<>>} \cup {<<Str("REPLICATE"), Num(LLInt(n))>> : n \in {0, 1, 2, 65536}}
OptTTL ==
    {<<>>} \cup {<<Str("ttl"), Num(v)>> : v \in {LLInt(0), LLInt(5), LLBig(10, 0)}}
OptRetry ==
    {<<>>} \cup {<<Str("retry"), Num(v)>> :
                    v \in {LLInt(0 - 1), LLInt(0), LLInt(7), LLBig(1, 0)}}
OptAsync == {<<>>, <<Str("async")>>}
OptBad == {<<>>, <<Str("bogus")>>, <<Str("replicate")>>}

\* Every combination of the options: the specification of the checks
AllOpts ==
    {r \o t \o y \o a \o b :
        r \in OptReplicate, t \in OptTTL, y \in OptRetry, a \in OptAsync,
        b \in OptBad}

\* Commands that pass the checks when enough nodes are reachable
LifeOpts ==
    {<<>>,
     <<Str("REPLICATE"), Num(LLInt(1))>>,
     <<Str("REPLICATE"), Num(LLInt(2)), Str("ASYNC")>>}

ArgvOver(opts) ==
    {Argv(q, b, t, o) : q \in Queues, b \in Bodies, t \in Timeouts, o \in opts}

\* serializeJob was not called yet
NotSerialized ==
    [called |-> FALSE, job |-> createJob(NoJobID, JOB_STATE_WAIT_REPL),
     out |-> SerializeFault]

InitWith(commands) ==
    /\ offered \in commands
    /\ now = 1
    /\ reachable_nodes_count = 0
    /\ sha1 = <<>>
    /\ counter = 0
    /\ prev_ctime = 0
    /\ heap = <<>>
    /\ server_jobs = {}
    /\ queue_jobs = {}
    /\ qref = [q \in Queues |-> 0]
    /\ blocked = [c \in Clients |-> FALSE]
    /\ bpop = [c \in Clients |-> [timeout |-> LLInt(0), job |-> NULL]]
    /\ reply = [c \in Clients |-> <<>>]
    /\ reg_log = <<>>
    /\ serialized = NotSerialized
    /\ last = Step("init", "c1", NoArgv, <<>>)

Environment ==
    \/ \E c \in Clients : ClientTimeout(c)
    \/ \E c \in Clients : ClientDisconnect(c)
    \/ \E c \in Clients, n \in Peers : ReplicationConfirmed(c, n)
    \/ \E j \in 1..Len(heap) : AckedJobDeleted(j)
    \/ \E n \in 0..MaxNodes : ReachableChange(n)

\* The main specification: the life of jobs. The clock is read for ctime and
\* qtime only, so it stands still here and advances in SpecBurst, where the
\* sequence of ctime values is the subject.
LifeArgv == {Argv("q1", "body", Num(LLInt(10)), o) : o \in LifeOpts}
Init == InitWith({LifeArgv})
Addjob == \E c \in Clients, a \in offered :
             counter < MaxJobs /\ addjobCommand(c, a)
Next == Addjob \/ Environment
Spec == Init /\ [][Next]_vars


\* The specification of the checks of ADDJOB: one command form per run,
\* drawn from every combination of the options
AllArgv == ArgvOver(AllOpts)
InitArgs == InitWith({{a} : a \in AllArgv})
SpecArgs == InitArgs /\ [][Next]_vars

\* The specification of the TTL: one command form per run, with a TTL at
\* and around the limits of the fields it is stored in (59 s, 1 minute, 65535
\* and 65536 minutes, INT_MAX and INT_MAX + 1 seconds)
OptTTLWide ==
    {<<>>} \cup {<<Str("TTL"), Num(v)>> :
                    v \in {LLInt(59), LLInt(60), LLInt(3932100), LLInt(3932160),
                           LLInt(2147483647), [neg |-> FALSE, hi |-> 32768, lo |-> 0]}}
TTLArgv ==
    {Argv("q1", "body", Num(LLInt(10)), r \o t) :
        r \in {<<>>, <<Str("REPLICATE"), Num(LLInt(1))>>}, t \in OptTTLWide}
InitTTL == InitWith({{a} : a \in TTLArgv})
SpecTTL == InitTTL /\ [][Next]_vars

\* Some caller (replication, persistence) serializes a job.
SerializeJob(j) ==
    /\ \E out \in serializeJob(j) :
          serialized' = [called |-> TRUE, job |-> j, out |-> out]
    /\ reply' = Only("c1", <<>>)
    /\ last' = Step("event", "c1", NoArgv, <<>>)
    /\ UNCHANGED <<offered, now, reachable_nodes_count, sha1, counter, prev_ctime,
                   heap, server_jobs, queue_jobs, qref, blocked, bpop, reg_log>>

\* Jobs as createJob leaves them, with or without a queue, a body and a
\* dict of delivered nodes (not allocated, empty, one or two nodes)
BareJobs ==
    {[createJob(generateJobID(0, LLInt(60), 0).id, JOB_STATE_ACTIVE) EXCEPT
         !.queue = q, !.body = b, !.nodes_delivered = d] :
        q \in {"", "q1"}, b \in {"", "body"},
        d \in {NullDict, [alloc |-> TRUE, nodes |-> {}],
               dictAddNode(NullDict, "n1"),
               dictAddNode(dictAddNode(NullDict, "n1"), "n2")}}

\* The specification of the serializer: the jobs of ADDJOB and bare jobs
Serialize ==
    \/ \E j \in 1..Len(heap) : heap[j].mem = "live" /\ SerializeJob(heap[j])
    \/ \E j \in BareJobs : SerializeJob(j)
NextSer == Next \/ Serialize
SpecSer == Init /\ [][NextSer]_vars

\* The specification of bursts of jobs: more jobs, two command forms, and a
\* clock that advances between them
BurstArgv ==
    {Argv("q1", "body", Num(LLInt(10)), <<Str("REPLICATE"), Num(LLInt(n))>>) :
        n \in {1, 2}}
InitBurst == InitWith({BurstArgv})
AddjobBurst == \E c \in Clients, a \in offered :
                  counter < MaxBurst /\ addjobCommand(c, a)
NextBurst == AddjobBurst \/ Environment \/ Tick
SpecBurst == InitBurst /\ [][NextBurst]_vars


(***************************************************************************)
(* The command as its documentation reads it, for the properties below.    *)
(***************************************************************************)
OptionNames == {"replicate", "ttl", "retry", "async"}

\* the positions of an option that is followed by its value
OptAt(a, name) ==
    {i \in 1..(Len(a.opts) - 1) :
        a.opts[i].t = "str" /\ tolower(a.opts[i].s) = name}
Given(a, name) == OptAt(a, name) # {}
ValueOf(a, name) == a.opts[(CHOOSE i \in OptAt(a, name) : TRUE) + 1]

ReplicateOf(a) ==
    IF Given(a, "replicate") THEN ValueOf(a, "replicate").v ELSE LLInt(3)
AsyncGiven(a) ==
    \E i \in 1..Len(a.opts) : a.opts[i].t = "str" /\ tolower(a.opts[i].s) = "async"

BadReplicate(a) ==
    /\ Given(a, "replicate")
    /\ LET v == ValueOf(a, "replicate")
       IN  v.t # "num" \/ v.v.neg \/ LLIsZero(v.v) \/ LLGreater(v.v, 65535)
BadTTL(a) ==
    /\ Given(a, "ttl")
    /\ LET v == ValueOf(a, "ttl") IN v.t # "num" \/ v.v.neg \/ LLIsZero(v.v)
BadRetry(a) ==
    /\ Given(a, "retry")
    /\ LET v == ValueOf(a, "retry") IN v.t # "num" \/ LLIsNeg(v.v)
Malformed(a) ==
    \E i \in 1..Len(a.opts) :
        /\ a.opts[i].t = "str"
        /\ \/ tolower(a.opts[i].s) \notin OptionNames
           \/ tolower(a.opts[i].s) # "async" /\ i = Len(a.opts)
BadTimeout(a) == a.timeout.t # "num" \/ LLIsNeg(a.timeout.v)
RetryConflict(a) ==
    /\ LLGreater(ReplicateOf(a), 1)
    /\ Given(a, "retry")
    /\ LLIsZero(ValueOf(a, "retry").v)
\* the replication factor minus one exceeds the reachable nodes
Insufficient(a, reach) == LLGreater(ReplicateOf(a), reach + 1)

\* the checks that come before the one on the reachable nodes
FailsEarlier(a) ==
    \/ BadReplicate(a) \/ BadTTL(a) \/ BadRetry(a) \/ Malformed(a)
    \/ BadTimeout(a) \/ RetryConflict(a)
RejectedByValidation(a, reach) == FailsEarlier(a) \/ Insufficient(a, reach)

\* this step is an ADDJOB command (of client last'.c, with last'.argv)
AddjobStep == last'.kind = "addjob" /\ vars' # vars
\* the job this step created, if it created one
Created == Len(heap') = Len(heap) + 1
NewJobPtr == Len(heap')
\* the ID of the created job was already a key of the registry
IdTaken == \E k \in server_jobs : heap[k].id = heap'[NewJobPtr].id
CallsOf(step, fn) == {i \in 1..Len(step.calls) : step.calls[i].fn = fn}


(***************************************************************************)
(* Properties.                                                             *)
(***************************************************************************)

\* the step just taken unblocked a client (timeout or disconnect) whose job
\* was still WAIT_REPL, and so called deleteJobFromCluster
UnblockedWaiting ==
    /\ last.kind \in {"timeout", "disconnect"}
    /\ CallsOf(last, "deleteJobFromCluster") # {}

\* C1: when the client of a synchronous ADDJOB times out or disconnects while
\* its job is still WAIT_REPL, cluster deletion is invoked and afterwards the
\* job is absent from the registry (lookup by its ID finds nothing) and was
\* never handed to the queue.
C1_TimedOutJobIsGone ==
    UnblockedWaiting =>
        \A i \in CallsOf(last, "deleteJobFromCluster") :
            LET j == last.calls[i].job
            IN  /\ lookupJob(server_jobs, heap, heap[j].id) = NULL
                /\ j \notin queue_jobs

\* the jobs of successful ADDJOB commands, in creation order
CreatedOk == {reg_log[i].job : i \in {k \in 1..Len(reg_log) :
                 reg_log[k].op = "register" /\ reg_log[k].ok}}

\* C2: the ctime values of the jobs created by successful ADDJOB commands on
\* this node are strictly increasing in creation order, also when several
\* consecutive jobs are created within the same millisecond.
C2_CtimeStrictlyIncreasing ==
    (\A k \in 1..Len(reg_log) : reg_log[k].ok) =>
        \A i, j \in CreatedOk : i < j => heap[i].ctime < heap[j].ctime


\* what holds of a job that ADDJOB registered and queued at once
QueuedAtOnce(c, j) ==
    /\ j \in server_jobs'
    /\ lookupJob(server_jobs', heap', heap'[j].id) = j
    /\ j \in queue_jobs'
    /\ CallsOf(last', "queueAddJob") # {}
    /\ heap'[j].state = JOB_STATE_QUEUED
    /\ reply'[c] = <<StatusReply(heap'[j].id)>>
    /\ ~blocked'[c]
    /\ CallsOf(last', "blockClient") = {}
    /\ bpop'[c] = bpop[c]

\* C3: every valid ADDJOB whose replication factor is 1 or that carries ASYNC
\* registers the job, hands it to the queue within the command, leaves it
\* QUEUED, replies the job ID at once and never blocks the client. (A command
\* whose new ID is already registered is the internal error of C9.)
C3_AsyncOrSingleIsQueued ==
    [][(/\ AddjobStep
        /\ ~RejectedByValidation(last'.argv, reachable_nodes_count)
        /\ \/ ReplicateOf(last'.argv) = LLInt(1)
           \/ AsyncGiven(last'.argv))
       => /\ Created
          /\ IdTaken \/ QueuedAtOnce(last'.c, NewJobPtr)]_vars

C3_Witness ==
    /\ last.kind = "addjob"
    /\ AsyncGiven(last.argv)
    /\ LLGreater(ReplicateOf(last.argv), 1)
    /\ Len(heap) = 2
    /\ 2 \in queue_jobs
    /\ heap[2].state = JOB_STATE_QUEUED
    /\ reply[last.c] = <<StatusReply(heap[2].id)>>

\* what holds of a job that ADDJOB left waiting for its replicas
LeftWaiting(c, a, j) ==
    /\ j \in server_jobs'
    /\ lookupJob(server_jobs', heap', heap'[j].id) = j
    /\ heap'[j].state = JOB_STATE_WAIT_REPL
    /\ Cardinality(CallsOf(last', "replicateJobInCluster")) = 1
    /\ \A i \in CallsOf(last', "replicateJobInCluster") :
          /\ last'.calls[i].job = j
          /\ LLInt(last'.calls[i].count + 1) = ReplicateOf(a)
          /\ last'.calls[i].ask
    /\ blocked'[c]
    /\ bpop'[c] = [timeout |-> a.timeout.v, job |-> j]
    /\ j \notin queue_jobs'
    /\ CallsOf(last', "queueAddJob") = {}
    /\ reply'[c] = <<>>

\* C4: every valid ADDJOB with a replication factor > 1 and without ASYNC ends
\* with the job registered in WAIT_REPL, propagation to exactly repl-1 peers
\* with confirmation requested issued, the client blocked with the supplied
\* timeout and holding the job, the job not queued and no ID replied.
C4_SyncReplicatedBlocks ==
    [][(/\ AddjobStep
        /\ ~RejectedByValidation(last'.argv, reachable_nodes_count)
        /\ LLGreater(ReplicateOf(last'.argv), 1)
        /\ ~AsyncGiven(last'.argv))
       => /\ Created
          /\ IdTaken \/ LeftWaiting(last'.c, last'.argv, NewJobPtr)]_vars

C4_Witness ==
    /\ last.kind = "addjob"
    /\ ~AsyncGiven(last.argv)
    /\ ReplicateOf(last.argv) = LLInt(3)
    /\ blocked[last.c]
    /\ bpop[last.c].job = 2
    /\ bpop[last.c].timeout = LLInt(10)
    /\ heap[2].state = JOB_STATE_WAIT_REPL
    /\ heap[2].repl = 3
    /\ 2 \in server_jobs


\* this step handled a peer's confirmation for the job of blocked client c
ConfirmedStep(c) ==
    /\ last'.kind = "confirmed" /\ last'.c = c /\ vars' # vars
    /\ blocked[c]
    /\ bpop[c].job # NULL
    /\ heap[bpop[c].job].state = JOB_STATE_WAIT_REPL

NodeVars ==
    <<now, reachable_nodes_count, sha1, counter, prev_ctime, heap, server_jobs,
      queue_jobs, qref, blocked, bpop, reg_log>>

\* C6: an ADDJOB rejected by validation (REPLICATE outside 1..65535, TTL <= 0,
\* RETRY < 0, REPLICATE > 1 with RETRY 0, a malformed option or timeout, too few
\* reachable nodes) changes nothing: no job created or registered, the ID
\* counter and prev_ctime not advanced, the queue reference count unchanged,
\* nothing queued or propagated, the client not blocked; one error reply only.
C6_RejectedChangesNothing ==
    [][(AddjobStep /\ RejectedByValidation(last'.argv, reachable_nodes_count))
       => /\ UNCHANGED NodeVars
          /\ last'.calls = <<>>
          /\ ~blocked'[last'.c]
          /\ Len(reply'[last'.c]) = 1
          /\ reply'[last'.c][1].t = "err"
          /\ reply'[last'.c][1] # ErrInternal]_vars

\* a command rejected for too few reachable nodes after it had created a job
\* (the nodes were reachable then)
C6_Witness ==
    /\ last.kind = "addjob"
    /\ RejectedByValidation(last.argv, reachable_nodes_count)
    /\ reply[last.c] = <<ErrNoRepl>>
    /\ Len(heap) = 1
    /\ counter = 1

\* C7: no registered job has repl > 1 together with rtime = 0.
C7_NoReplicatedJobWithoutRetry ==
    \A j \in server_jobs : ~(heap[j].repl > 1 /\ LLIsZero(heap[j].rtime))


\* this step replied NOREPL and created no job
NoReplRejection ==
    /\ reply'[last'.c] = <<ErrNoRepl>>
    /\ ~Created
    /\ UNCHANGED <<heap, server_jobs>>

\* C8 as stated: an ADDJOB is rejected with the NOREPL error, no job created,
\* exactly when its effective replication factor (REPLICATE, or 3 when
\* omitted) minus one exceeds the number of reachable nodes.
C8_NoReplExactlyWhenInsufficient ==
    [][AddjobStep =>
          (NoReplRejection <=>
              Insufficient(last'.argv, reachable_nodes_count))]_vars

\* C8 as amended: an ADDJOB that passes the checks made before (options,
\* timeout, REPLICATE > 1 with RETRY 0) is rejected with NOREPL exactly when
\* its effective replication factor minus one exceeds the reachable nodes,
\* with or without ASYNC; and whenever the factor minus one exceeds them the
\* command is rejected with some error and no job is created or registered.
C8_NoReplWhenCheckReached ==
    [][AddjobStep =>
          LET a == last'.argv
              few == Insufficient(a, reachable_nodes_count)
          IN  /\ reply'[last'.c] = <<ErrNoRepl>> <=> (~FailsEarlier(a) /\ few)
              /\ few => /\ ~Created
                        /\ UNCHANGED <<heap, server_jobs>>
                        /\ Len(reply'[last'.c]) = 1
                        /\ reply'[last'.c][1].t = "err"
              /\ (~FailsEarlier(a) /\ ~few) => Created]_vars

\* NOREPL for a command with ASYNC and the default replication factor
C8_Witness ==
    /\ last.kind = "addjob"
    /\ AsyncGiven(last.argv)
    /\ ~Given(last.argv, "replicate")
    /\ ~FailsEarlier(last.argv)
    /\ reachable_nodes_count = 1
    /\ reply[last.c] = <<ErrNoRepl>>
    /\ heap = <<>>

\* this step created a job whose ID was already registered
DuplicateStep == AddjobStep /\ Created /\ IdTaken

\* C9: when ADDJOB finds the new job's ID already in the registry, the
\* registry is not modified (the entry there is neither overwritten nor
\* removed), the new job is freed, its queue reference is given back, the job
\* is neither propagated nor queued, the client is not blocked, and the reply
\* is the generic internal error.
C9_DuplicateIdIsDiscarded ==
    [][DuplicateStep =>
          /\ server_jobs' = server_jobs
          /\ \A k \in server_jobs : heap'[k] = heap[k]
          /\ heap'[NewJobPtr].mem = "freed"
          /\ qref' = qref
          /\ queue_jobs' = queue_jobs
          /\ CallsOf(last', "replicateJobInCluster") = {}
          /\ CallsOf(last', "queueAddJob") = {}
          /\ CallsOf(last', "blockClient") = {}
          /\ ~blocked'[last'.c]
          /\ bpop' = bpop
          /\ reply'[last'.c] = <<ErrInternal>>]_vars

C9_Witness ==
    /\ last.kind = "addjob"
    /\ reply[last.c] = <<ErrInternal>>
    /\ Len(heap) = 2
    /\ heap[2].mem = "freed"
    /\ heap[1].mem = "live"
    /\ heap[1].id = heap[2].id
    /\ server_jobs = {1}

\* The registry as its contract describes it, replayed from the operations:
\* register inserts unless the ID is there, unregister removes the ID.
RECURSIVE Replay(_, _)
Replay(log, n) ==
    IF n = 0 THEN {}
    ELSE LET m == Replay(log, n - 1)
             e == log[n]
         IN  IF e.op = "register"
             THEN IF \E x \in m : x[1] = e.id THEN m ELSE m \cup {<<e.id, e.job>>}
             ELSE {x \in m : x[1] # e.id}

KnownIds == {heap[j].id : j \in 1..Len(heap)}

\* C10: lookup(id) returns a job if and only if a job with that ID was
\* registered and not unregistered since, and it returns that very job; and
\* in ADDJOB the job is registered before it is propagated, attached to a
\* blocked client or handed to the queue.
C10_LookupIffRegistered ==
    /\ LET m == Replay(reg_log, Len(reg_log))
       IN  \A id \in KnownIds :
              LET found == lookupJob(server_jobs, heap, id)
              IN  /\ found # NULL <=> \E x \in m : x[1] = id
                  /\ found # NULL => <<id, found>> \in m
    /\ last.kind = "addjob" =>
          \A i \in 1..Len(last.calls) :
             last.calls[i].fn \in {"replicateJobInCluster", "blockClient",
                                   "queueAddJob"}
                => /\ last.calls[i].reg
                   /\ \E k \in 1..(i - 1) : last.calls[k].fn = "registerJob"

\* a job unregistered, and another with the same ID registered after it
C10_Witness ==
    /\ Len(reg_log) = 3
    /\ reg_log[2].op = "unregister"
    /\ reg_log[3].op = "register"
    /\ reg_log[3].id = reg_log[2].id
    /\ lookupJob(server_jobs, heap, reg_log[3].id) = reg_log[3].job
    /\ last.kind = "addjob"
    /\ CallsOf(last, "replicateJobInCluster") # {}

\* this step cancelled the pending submission of blocked client c: its timer
\* expired or it disconnected
CancelStep(c) ==
    /\ last'.kind \in {"timeout", "disconnect"} /\ last'.c = c /\ vars' # vars
    /\ blocked[c]

\* C11: cancelling a pending synchronous submission (timer expiry or client
\* disconnect) releases the producer connection exactly once: after the
\* unblock the client holds no job reference, the job is freed at most once,
\* no freed job remains registered or referenced by any client, and every job
\* still registered is either queued or awaited by a blocked client.
C11_CancellationIsConsistent ==
    [][\A c \in Clients :
          CancelStep(c) =>
             LET j == bpop[c].job
                 frees == {i \in CallsOf(last', "freeJob") : last'.calls[i].job = j}
             IN  /\ ~blocked'[c]
                 /\ bpop'[c].job = NULL
                 /\ Cardinality(frees) <= 1
                 /\ heap[j].mem = "freed" => frees = {}
                 /\ \A k \in 1..Len(heap') :
                       heap'[k].mem = "freed" =>
                          /\ k \notin server_jobs'
                          /\ \A x \in Clients : bpop'[x].job # k
                 /\ \A k \in server_jobs' :
                       \/ k \in queue_jobs'
                       \/ \E x \in Clients : blocked'[x] /\ bpop'[x].job = k]_vars

\* the ADDJOB of this step ran to completion on its own client
CompletedOn(c, a) ==
    IF RejectedByValidation(a, reachable_nodes_count)
    THEN /\ ~Created
         /\ Len(reply'[c]) = 1 /\ reply'[c][1].t = "err"
         /\ ~blocked'[c]
    ELSE /\ Created
         /\ \/ IdTaken /\ reply'[c] = <<ErrInternal>> /\ ~blocked'[c]
            \/ QueuedAtOnce(c, NewJobPtr)
            \/ LeftWaiting(c, a, NewJobPtr)

\* a blocked client and what it waits for are left alone by this step
PendingUntouched(x) ==
    /\ blocked'[x]
    /\ bpop'[x] = bpop[x]
    /\ heap'[bpop[x].job] = heap[bpop[x].job]
    /\ reply'[x] = <<>>

\* C12: a producer connection is blocked only while its job is WAIT_REPL; and
\* while one connection is blocked the node still processes the ADDJOB
\* commands of the other connections to completion (validated, registered,
\* queued or blocked on their own), without waiting for the confirmations or
\* the timeout of the first: the command of another connection is enabled, and
\* every ADDJOB step completes and leaves the blocked connections alone.
C12_BlockedOnlyWhileWaiting ==
    /\ [](\A c \in Clients :
             blocked[c] =>
                /\ bpop[c].job # NULL
                /\ heap[bpop[c].job].mem = "live"
                /\ heap[bpop[c].job].state = JOB_STATE_WAIT_REPL
                /\ \A x \in Clients \ {c} :
                      ~blocked[x] => \E a \in offered : ENABLED addjobCommand(x, a))
    /\ [][AddjobStep =>
             /\ CompletedOn(last'.c, last'.argv)
             /\ \A x \in Clients \ {last'.c} : blocked[x] => PendingUntouched(x)]_vars

\* c1 still waits for its replicas; c2 sent a command after it and has its
\* job queued and its reply
C12_Witness ==
    /\ blocked["c1"]
    /\ bpop["c1"].job = 1
    /\ heap[1].state = JOB_STATE_WAIT_REPL
    /\ last.kind = "addjob" /\ last.c = "c2"
    /\ ~blocked["c2"]
    /\ 2 \in queue_jobs
    /\ reply["c2"] = <<StatusReply(heap[2].id)>>

\* SHA1 gave different values for the different counters hashed so far
HashInjective ==
    \A i, k \in 1..Len(sha1) : i # k => sha1[i] # sha1[k]

HexDigits == {charset[i] : i \in 1..16}

\* 'DI' + 8 node-ID bytes + 36 hex digits + 'SQ'
FixedLayout(chars) ==
    /\ Len(chars) = 48
    /\ SubSeq(chars, 1, 2) = <<"D", "I">>
    /\ SubSeq(chars, 3, 10) = MyselfName
    /\ \A i \in 11..46 : chars[i] \in HexDigits
    /\ SubSeq(chars, 47, 48) = <<"S", "Q">>

\* C13: every call of generateJobID advances the per-process counter by
\* exactly one before hashing, so no two calls feed the same (seed, counter)
\* to the hash; with a hash that is injective on those inputs any two IDs
\* generated in the process are distinct; and each ID has the fixed layout
\* 'DI' + 8 node-ID bytes + 36 hex digits + 'SQ'.
C13_IdsDistinctAndWellFormed ==
    /\ [][(AddjobStep /\ Created) =>
             /\ counter' = counter + 1
             /\ Len(sha1') = Len(sha1) + 1
             /\ Len(sha1') = counter']_vars
    /\ [](HashInjective =>
             \A i, k \in 1..Len(heap) :
                i # k => /\ heap[i].id # heap[k].id
                         /\ JobIDChars(heap[i].id) # JobIDChars(heap[k].id))
    /\ [](\A j \in 1..Len(heap) : FixedLayout(JobIDChars(heap[j].id)))

\* two IDs generated with the same TTL, the hash values differing
C13_Witness ==
    /\ counter = 2
    /\ Len(heap) = 2
    /\ HashInjective
    /\ heap[1].id.ttl = heap[2].id.ttl
    /\ JobIDChars(heap[1].id) # JobIDChars(heap[2].id)
    /\ FixedLayout(JobIDChars(heap[2].id))

\* the TTL of a command in seconds: the TTL option, or the default of a day
TTLOf(a) == IF Given(a, "ttl") THEN ValueOf(a, "ttl").v ELSE AddjobLocals.ttl

\* min(ttl / 60, 0xFFFF)
SaturatedMinutes(ttl) ==
    LET q == LLDiv(ttl, 60)
    IN  IF LLGreater(q, 65535) THEN 65535 ELSE LLVal(q)

\* C14: for every accepted TTL (any integer > 0, in seconds) the 16 bit TTL
\* field of the generated job ID is min(ttl/60, 0xFFFF), big endian: it
\* saturates at 65535 minutes and does not wrap around for large TTLs.
C14_TTLFieldSaturates ==
    [][(AddjobStep /\ Created) =>
          LET m == SaturatedMinutes(TTLOf(last'.argv))
              id == heap'[NewJobPtr].id
          IN  /\ id.ttl = <<m \div 256, m % 256>>
              /\ SubSeq(JobIDChars(id), 43, 46)
                    = HexOf(<<m \div 256, m % 256>>)]_vars

\* max(1, ttl / 10)
OneTenthAtLeastOne(ttl) ==
    LET q == LLDiv(ttl, 10)
    IN  IF LLIsZero(q) THEN LLInt(1) ELSE q

\* C15: for every accepted ADDJOB without RETRY the created job has
\* rtime = max(1, ttl/10), the integer division of the effective TTL (the
\* default TTL included); for every accepted ADDJOB with RETRY r >= 0 the job
\* has rtime = r.
C15_RtimeIsRetry ==
    [][(AddjobStep /\ Created) =>
          LET a == last'.argv
              rtime == heap'[NewJobPtr].rtime
          IN  IF Given(a, "retry")
              THEN rtime = ValueOf(a, "retry").v
              ELSE rtime = OneTenthAtLeastOne(TTLOf(a))]_vars

\* C16: deleteJobFromCluster may be called on a job in any state without
\* error; it leaves the job unregistered and freed locally, after a deletion
\* notice to each peer in nodes_delivered (no job has one: replicateJobInCluster
\* records none); and it is idempotent: a second call for the deleted job
\* changes no state.
C16_DeleteUnregistersAndFrees ==
    \A j \in 1..Len(heap) :
        heap[j].mem = "live" =>
           LET once  == deleteJobFromCluster(NodeState, j)
               twice == deleteJobFromCluster(once, j)
           IN  /\ j \notin once.jobs
               /\ lookupJob(once.jobs, once.heap, heap[j].id) # j
               /\ once.heap[j].mem = "freed"
               /\ twice = once

\* replicateJobInCluster applied to job j when its delivered set is 'had':
\* what it sent and recorded obeys the contract of propagation
PropagatesWithin(j, had, count, ask) ==
    LET before == [heap EXCEPT ![j].nodes_delivered = had]
        after  == replicateJobInCluster(before, j, count, ask)
        sent   == replicateJobSent(before, j, count, ask)
        again  == replicateJobInCluster(after, j, count, ask)
    IN  /\ sent \subseteq after[j].nodes_delivered.nodes
        /\ Cardinality(after[j].nodes_delivered.nodes \ had.nodes) <= count
        /\ Cardinality(sent) <= count
        /\ sent \cap had.nodes = {}
        /\ had.nodes \subseteq after[j].nodes_delivered.nodes
        /\ replicateJobSent(after, j, count, ask) = {}
        /\ again = after

LLLess(x, y) == x.hi < y.hi \/ (x.hi = y.hi /\ x.lo < y.lo)
LLSub(x, y) ==
    LET b == IF x.lo < y.lo THEN 1 ELSE 0
    IN  [neg |-> FALSE, hi |-> x.hi - y.hi - b, lo |-> x.lo - y.lo + b * Radix]
\* x % k for x >= 0 and 0 < k < 2^15
LLMod(x, k) == ((x.hi % k) * Radix + x.lo) % k

\* d nanoseconds are exactly ttl seconds: d = ttl * 1000 * 1000 * 1000
IsSecondsInNanos(d, ttl) ==
    LET us == LLDiv(d, 1000)
        ms == LLDiv(us, 1000)
    IN  /\ LLMod(d, 1000) = 0 /\ LLMod(us, 1000) = 0 /\ LLMod(ms, 1000) = 0
        /\ LLDiv(ms, 1000) = ttl

\* C18: for every job created by ADDJOB the stored etime is ctime + ttl, the
\* TTL taken in the unit of ctime (ctime is milliseconds * 1000000, the TTL is
\* given in seconds), and nothing of it is lost to the width of the etime
\* field, for every accepted TTL.
C18_EtimeIsCtimePlusTTL ==
    [][(AddjobStep /\ Created) =>
          LET job == heap'[NewJobPtr]
              ctime == LLInt(job.ctime)
          IN  /\ ~LLLess(job.etime, ctime)
              /\ IsSecondsInNanos(LLSub(job.etime, ctime), TTLOf(last'.argv))]_vars

\* C19: for every job - also one with no queue, with an empty body, with a
\* delivered-node set that is empty or was never allocated (as for every job
\* fresh from ADDJOB) - serializeJob completes without fault, writes exactly
\* the precomputed number of bytes so that the final assertion holds, encodes
\* a missing queue as a zero length queue name, and emits the delivered-node
\* set but not the confirmed-node set.
C19_SerializeCompletes ==
    serialized.called =>
       LET j == serialized.job
           out == serialized.out
       IN  /\ ~out.fault
           /\ out.written = out.len
           /\ out.asserted
           /\ j.queue = "" => sdslen(out.queue) = 0
           /\ out.queue = j.queue
           /\ out.body = j.body
           /\ out.nodes_delivered = j.nodes_delivered.nodes
           /\ "nodes_confirmed" \notin DOMAIN out

\* the three ways an ADDJOB of client c may end
EndsInError(c) ==
    /\ Len(reply'[c]) = 1 /\ reply'[c][1].t = "err"
    /\ ~blocked'[c]
EndsInJobID(c) ==
    IF Len(reply'[c]) = 1 /\ reply'[c][1].t = "status"
    THEN /\ \E j \in server_jobs' \cap queue_jobs' :
               /\ reply'[c][1].id = heap'[j].id
               /\ \E i \in CallsOf(last', "queueAddJob") : last'.calls[i].job = j
         /\ ~blocked'[c]
    ELSE FALSE
EndsBlocked(c) ==
    /\ reply'[c] = <<>>
    /\ blocked'[c]
    /\ bpop'[c].job # NULL
    /\ bpop'[c].job \in server_jobs'
    /\ heap'[bpop'[c].job].state = JOB_STATE_WAIT_REPL

\* C20: every ADDJOB ends in exactly one of three outcomes: one error reply
\* and the client not blocked; one job-ID reply for a job that is registered
\* and was handed to the queue, the client not blocked; or no reply and the
\* client blocked holding a registered job in WAIT_REPL. A client's pending
\* job is non-null exactly when the client is blocked on job replication,
\* and no job is pending for two clients.
C20_ThreeOutcomes ==
    /\ [][AddjobStep =>
             LET c == last'.c
             IN  /\ EndsInError(c) \/ EndsInJobID(c) \/ EndsBlocked(c)
                 /\ ~(EndsInError(c) /\ EndsInJobID(c))
                 /\ ~(EndsInError(c) /\ EndsBlocked(c))
                 /\ ~(EndsInJobID(c) /\ EndsBlocked(c))]_vars
    /\ [](\A c \in Clients : bpop[c].job # NULL <=> blocked[c])
    /\ [](\A c, d \in Clients :
             (c # d /\ bpop[c].job # NULL) => bpop[c].job # bpop[d].job)

\* both clients blocked, each on its own job, the second by the last command
C20_Witness ==
    /\ last.kind = "addjob"
    /\ reply[last.c] = <<>>
    /\ \A c \in Clients : blocked[c] /\ bpop[c].job \in server_jobs
    /\ bpop["c1"].job # bpop["c2"].job
    /\ \A c \in Clients : heap[bpop[c].job].state = JOB_STATE_WAIT_REPL

====
